---- MODULE Spec2Model ----
(***************************************************************************)
(* CSV Explorer & Q&A Agent: CSVAgent (src/agent.py) orchestrating         *)
(* CSVTool, ProfileTool, QueryTool and ChartTool (src/tools.py).           *)
(*                                                                         *)
(* Text is a sequence of one-character strings, so that strip, lower,      *)
(* startswith, slicing and the regular expressions of QueryTool are        *)
(* computed character by character.                                        *)
(***************************************************************************)
EXTENDS Integers, Sequences, FiniteSets, TLC

VARIABLES
    df,        \* CSVTool.df: NoDF (None) or the loaded DataFrame
    name,      \* CSVTool.name
    memory,    \* CSVAgent.memory
    recorded,  \* history: every entry ever handed to _remember, in order
    op,        \* the public call that ran last ("new" after construction)
    arg,       \* its input
    outcome,   \* "return" or "raise"
    result,    \* the value returned, or the exception raised
    trace      \* what the call did inside: route taken, query handed over, pattern matched

vars == <<df, name, memory, recorded, op, arg, outcome, result, trace>>

(***************************************************************************)
(* Characters and Python's str methods                                     *)
(***************************************************************************)

\* Printable ASCII in code-point order, from 32 (space) to 126 (~); code 96 is
\* held by a placeholder, no text of the model contains a backtick.
Ascii ==
    <<" ", "!", "\"", "#", "$", "%", "&", "'", "(", ")", "*", "+", ",", "-", ".", "/",
      "0", "1", "2", "3", "4", "5", "6", "7", "8", "9", ":", ";", "<", "=", ">", "?",
      "@", "A", "B", "C", "D", "E", "F", "G", "H", "I", "J", "K", "L", "M", "N", "O",
      "P", "Q", "R", "S", "T", "U", "V", "W", "X", "Y", "Z", "[", "\\", "]", "^", "_",
      "(backtick)", "a", "b", "c", "d", "e", "f", "g", "h", "i", "j", "k", "l", "m", "n", "o",
      "p", "q", "r", "s", "t", "u", "v", "w", "x", "y", "z", "{", "|", "}", "~">>

\* The characters of the model's texts
Chars == {Ascii[i] : i \in 1..Len(Ascii)} \cup {"\t", "\n"}

\* ord(c), tabulated
CodeOf ==
    [c \in Chars |->
        IF c = "\t" THEN 9
        ELSE IF c = "\n" THEN 10
        ELSE 31 + (CHOOSE i \in 1..Len(Ascii) : Ascii[i] = c)]

Code(c) == CodeOf[c]

\* chr(n), for printable n
Chr(n) == Ascii[n - 31]

IsSpace(c) == c \in {" ", "\t", "\n"}
IsDigit(c) == c \in {"0", "1", "2", "3", "4", "5", "6", "7", "8", "9"}
IsUpper(c) == Code(c) \in 65..90
IsLower(c) == Code(c) \in 97..122
IsAlpha(c) == IsUpper(c) \/ IsLower(c)
\* \w of the re module
IsWordChar(c) == IsAlpha(c) \/ IsDigit(c) \/ c = "_"

\* c.lower(), c.upper(), tabulated
LowerOf == [c \in Chars |-> IF CodeOf[c] \in 65..90 THEN Ascii[CodeOf[c] + 1] ELSE c]
UpperOf == [c \in Chars |-> IF CodeOf[c] \in 97..122 THEN Ascii[CodeOf[c] - 63] ELSE c]

LowerChar(c) == LowerOf[c]
UpperChar(c) == UpperOf[c]

\* str.lower(), str.upper()
Lower(s) == [i \in 1..Len(s) |-> LowerChar(s[i])]
Upper(s) == [i \in 1..Len(s) |-> UpperChar(s[i])]

SetMin(S) == CHOOSE x \in S : \A y \in S : x <= y
SetMax(S) == 0 - SetMin({0 - x : x \in S})

\* str.strip(chars): drop the leading and trailing characters that satisfy Drop
StripWhere(s, Drop(_)) ==
    LET keep == {i \in 1..Len(s) : ~Drop(s[i])}
    IN  IF keep = {} THEN <<>> ELSE SubSeq(s, SetMin(keep), SetMax(keep))

\* str.strip()
Strip(s) == StripWhere(s, IsSpace)

IsQuote(c) == c \in {"'", "\""}

\* str.startswith(p)
StartsWith(s, p) == Len(s) >= Len(p) /\ SubSeq(s, 1, Len(p)) = p

\* s[n:]
From(s, n) == SubSeq(s, n + 1, Len(s))

\* Python's < on str: lexicographic by code point
RECURSIVE StrLess(_, _)
StrLess(a, b) ==
    IF b = <<>> THEN FALSE
    ELSE IF a = <<>> THEN TRUE
    ELSE IF a[1] = b[1] THEN StrLess(Tail(a), Tail(b))
    ELSE Code(a[1]) < Code(b[1])

\* str(n) for an integer n
RECURSIVE NatStr(_)
NatStr(n) == IF n < 10 THEN <<Chr(48 + n)>> ELSE NatStr(n \div 10) \o <<Chr(48 + (n % 10))>>
IntStr(n) == IF n < 0 THEN <<"-">> \o NatStr(-n) ELSE NatStr(n)

(***************************************************************************)
(* Python values                                                           *)
(***************************************************************************)

IntV(n) == [t |-> "int", v |-> n]
BoolV(b) == [t |-> "bool", b |-> b]
StrV(s) == [t |-> "str", s |-> s]
\* float nan, +inf, -inf
NaN == [t |-> "float", k |-> "nan"]
Inf(sign) == [t |-> "float", k |-> "inf", sign |-> sign]

\* How a call ends: the value it returns, or the exception it raises.
Return(v) == [outcome |-> "return", value |-> v]
Raise(e) == [outcome |-> "raise", value |-> e]

RECURSIVE Pow10(_)
Pow10(n) == IF n <= 0 THEN 1 ELSE 10 * Pow10(n - 1)

\* A finite float m * 10^e, kept with m free of trailing zeros so that equal
\* floats are equal values.
RECURSIVE FloatV(_, _)
FloatV(m, e) ==
    IF m = 0 THEN [t |-> "float", k |-> "fin", m |-> 0, e |-> 0]
    ELSE IF m % 10 = 0 THEN FloatV(m \div 10, e + 1)
    ELSE [t |-> "float", k |-> "fin", m |-> m, e |-> e]

(***************************************************************************)
(* int(v) and float(v) on a str, and QueryTool._coerce_value               *)
(***************************************************************************)

\* The digit part of a numeric literal: digits, single underscores between them.
IsDigitRun(s) ==
    /\ s # <<>>
    /\ \A i \in 1..Len(s) : IsDigit(s[i]) \/ s[i] = "_"
    /\ IsDigit(s[1]) /\ IsDigit(s[Len(s)])
    /\ \A i \in 1..(Len(s) - 1) : ~(s[i] = "_" /\ s[i + 1] = "_")

DigitsOnly(s) == SelectSeq(s, IsDigit)

RECURSIVE DigitsValue(_)
DigitsValue(s) ==
    IF s = <<>> THEN 0
    ELSE 10 * DigitsValue(SubSeq(s, 1, Len(s) - 1)) + (Code(s[Len(s)]) - 48)

Unsigned(s) == IF s # <<>> /\ s[1] \in {"+", "-"} THEN Tail(s) ELSE s
SignOf(s) == IF s # <<>> /\ s[1] = "-" THEN -1 ELSE 1

\* int(v) does not raise ValueError
IntParses(v) == IsDigitRun(Unsigned(Strip(v)))
\* int(v)
IntValue(v) == SignOf(Strip(v)) * DigitsValue(DigitsOnly(Unsigned(Strip(v))))

FloatWords == {<<"i", "n", "f">>, <<"i", "n", "f", "i", "n", "i", "t", "y">>, <<"n", "a", "n">>}

\* The parts of a float literal without its sign, lower-cased: mantissa before
\* the first "e", exponent after it (NoExp when there is no "e").
NoExp == <<"(none)">>
FloatParts(body) ==
    LET es == {i \in 1..Len(body) : body[i] = "e"}
        cut == IF es = {} THEN Len(body) + 1 ELSE SetMin(es)
        mant == SubSeq(body, 1, cut - 1)
        dots == {i \in 1..Len(mant) : mant[i] = "."}
        dot == IF dots = {} THEN Len(mant) + 1 ELSE SetMin(dots)
    IN  [ip |-> SubSeq(mant, 1, dot - 1),
         fp |-> SubSeq(mant, dot + 1, Len(mant)),
         hasDot |-> dots # {},
         ex |-> IF es = {} THEN NoExp ELSE SubSeq(body, cut + 1, Len(body))]

\* float(v) does not raise ValueError
FloatParses(v) ==
    LET body == Lower(Unsigned(Strip(v)))
        p == FloatParts(body)
    IN  \/ body \in FloatWords
        \/ /\ p.ip = <<>> \/ IsDigitRun(p.ip)
           /\ p.fp = <<>> \/ IsDigitRun(p.fp)
           /\ p.ip # <<>> \/ p.fp # <<>>
           /\ p.ex = NoExp \/ IsDigitRun(Unsigned(p.ex))

\* float(v)
FloatValue(v) ==
    LET body == Lower(Unsigned(Strip(v)))
        p == FloatParts(body)
        frac == DigitsOnly(p.fp)
        ex == IF p.ex = NoExp THEN 0
              ELSE SignOf(p.ex) * DigitsValue(DigitsOnly(Unsigned(p.ex)))
    IN  IF body = <<"n", "a", "n">> THEN NaN
        ELSE IF body \in FloatWords THEN Inf(SignOf(Strip(v)))
        ELSE FloatV(SignOf(Strip(v)) * DigitsValue(DigitsOnly(p.ip) \o frac), ex - Len(frac))

BoolWords == {<<"t", "r", "u", "e">>, <<"f", "a", "l", "s", "e">>}

\* _coerce_value with the casters tried in the order (float, int)
CoerceFloatFirst(v) ==
    IF FloatParses(v) THEN FloatValue(v)
    ELSE IF IntParses(v) THEN IntV(IntValue(v))
    ELSE IF Lower(v) \in BoolWords THEN BoolV(Lower(v) = <<"t", "r", "u", "e">>)
    ELSE StrV(StripWhere(v, IsQuote))

\* QueryTool._coerce_value: int, then float, then bool, else strip quotes.
\* The bare except turns every failure of a caster into "try the next one".
Coerce(v) ==
    IF IntParses(v) THEN IntV(IntValue(v))
    ELSE IF FloatParses(v) THEN FloatValue(v)
    ELSE IF Lower(v) \in BoolWords THEN BoolV(Lower(v) = <<"t", "r", "u", "e">>)
    ELSE StrV(StripWhere(v, IsQuote))

(***************************************************************************)
(* Text literals                                                           *)
(***************************************************************************)

NoCsvLoaded == <<"N", "o", " ", "C", "S", "V", " ", "l", "o", "a", "d", "e", "d", ".">>

\* An exception in flight: its class and its message.
Exc(cls, msg) == [t |-> cls, msg |-> msg]
NotLoaded == Exc("ValueError", NoCsvLoaded)

(***************************************************************************)
(* pd.read_csv(io.BytesIO(file_bytes), **read_csv_kwargs)                  *)
(*                                                                         *)
(* The bytes are text: lines ended by "\n", fields separated by sep.       *)
(* A DataFrame is [columns, dtypes, index, rows]: rows[i][j] is the cell   *)
(* of row i in column j and index[i] the row's label.                      *)
(***************************************************************************)

NoDF == [t |-> "NoneType"]

\* s.split(c)
RECURSIVE Split(_, _)
Split(s, c) ==
    LET at == {i \in 1..Len(s) : s[i] = c}
    IN  IF at = {} THEN <<s>>
        ELSE <<SubSeq(s, 1, SetMin(at) - 1)>> \o Split(SubSeq(s, SetMin(at) + 1, Len(s)), c)

\* An integer field as the parser reads it: an optional sign and digits.
IsIntField(f) == Unsigned(f) # <<>> /\ \A i \in 1..Len(Unsigned(f)) : IsDigit(Unsigned(f)[i])

\* The field of data row r in column j; a short row is padded with missing fields.
FieldAt(r, j) == IF j <= Len(r) THEN r[j] ELSE <<>>

\* The dtype the parser infers for column j of the data rows.
InferDtype(data, j) ==
    LET fields == {FieldAt(data[i], j) : i \in 1..Len(data)}
    IN  IF data = <<>> THEN "object"
        ELSE IF \A f \in fields : IsIntField(f) THEN "int64"
        ELSE IF \A f \in fields : f = <<>> \/ IsIntField(f) THEN "float64"
        ELSE "object"

\* The cell a field becomes in a column of the given dtype; a missing field is NaN.
CellOf(f, dtype) ==
    IF dtype = "int64" THEN IntV(IntValue(f))
    ELSE IF f = <<>> THEN NaN
    ELSE IF dtype = "float64" THEN FloatV(IntValue(f), 0)
    ELSE StrV(f)

\* pd.read_csv: the DataFrame, or the exception it raises.  The first line is
\* the header, blank lines are skipped, a data row with more fields than
\* expected is a tokenizing error.  (The inputs hold no first data row wider
\* than the header, which the parser would read as an index column, no
\* duplicate or empty column names and no float, boolean or NA words.)
ReadCsv(bytes, sep) ==
    LET lines == SelectSeq(Split(bytes, "\n"), LAMBDA line : line # <<>>)
        header == Split(lines[1], sep)
        data == [i \in 1..(Len(lines) - 1) |-> Split(lines[i + 1], sep)]
        dtypes == [j \in 1..Len(header) |-> InferDtype(data, j)]
    IN  IF lines = <<>> THEN Exc("EmptyDataError", <<>>)
        ELSE IF \E i \in 1..Len(data) : Len(data[i]) > Len(header)
             THEN Exc("ParserError", <<>>)
        ELSE [t |-> "DataFrame",
              columns |-> header,
              dtypes |-> dtypes,
              index |-> [i \in 1..Len(data) |-> i - 1],
              rows |-> [i \in 1..Len(data) |->
                          [j \in 1..Len(header) |-> CellOf(FieldAt(data[i], j), dtypes[j])]]]

IsFrame(x) == x.t = "DataFrame"

\* len(df), df.columns
NRows(d) == Len(d.rows)
HasColumn(d, col) == \E j \in 1..Len(d.columns) : d.columns[j] = col
\* position of the first column labelled col
ColPos(d, col) == SetMin({j \in 1..Len(d.columns) : d.columns[j] = col})
\* df[col]: the cells of the column, in row order
Column(d, col) == [i \in 1..NRows(d) |-> d.rows[i][ColPos(d, col)]]
ColDtype(d, col) == d.dtypes[ColPos(d, col)]

IsNull(v) == v = NaN

\* The rows of d at the positions in keep (a sequence of row positions).
TakeRows(d, keep) ==
    [d EXCEPT !.index = [i \in 1..Len(keep) |-> d.index[keep[i]]],
              !.rows = [i \in 1..Len(keep) |-> d.rows[keep[i]]]]

\* The positions of a set of row positions, ascending.
RECURSIVE Ascending(_)
Ascending(S) == IF S = {} THEN <<>> ELSE <<SetMin(S)>> \o Ascending(S \ {SetMin(S)})

\* df.head(n), n >= 0
DfHead(d, n) == TakeRows(d, [i \in 1..(IF n < NRows(d) THEN n ELSE NRows(d)) |-> i])

(***************************************************************************)
(* Comparing a column with a scalar: ops[op](df[col], val)                 *)
(***************************************************************************)

OpEq == {<<"=", "=">>, <<"=">>}
OpNe == <<"!", "=">>
OpLt == <<"<">>
OpLe == <<"<", "=">>
OpGt == <<">">>
OpGe == <<">", "=">>

\* The comparison op names, given whether left < right and left == right.
Holds(o, lt, eq) ==
    IF o \in OpEq THEN eq
    ELSE IF o = OpNe THEN ~eq
    ELSE IF o = OpLt THEN lt
    ELSE IF o = OpLe THEN lt \/ eq
    ELSE IF o = OpGt THEN ~lt /\ ~eq
    ELSE ~lt

IsOrdering(o) == o \in {OpLt, OpLe, OpGt, OpGe}

\* A number as mant * 10^expo: int, bool (True is 1) and finite float.
IsInfinite(v) == v.t = "float" /\ v.k = "inf"
Mant(v) == IF v.t = "int" THEN v.v ELSE IF v.t = "bool" THEN (IF v.b THEN 1 ELSE 0) ELSE v.m
Expo(v) == IF v.t = "float" THEN v.e ELSE 0

NumLess(a, b) ==
    IF IsInfinite(a) THEN a.sign = -1 /\ ~(IsInfinite(b) /\ b.sign = -1)
    ELSE IF IsInfinite(b) THEN b.sign = 1
    ELSE LET lo == IF Expo(a) < Expo(b) THEN Expo(a) ELSE Expo(b)
         IN  Mant(a) * Pow10(Expo(a) - lo) < Mant(b) * Pow10(Expo(b) - lo)

NumEq(a, b) == ~NumLess(a, b) /\ ~NumLess(b, a)

\* One element of a numeric column against a number.
NumCellHolds(o, cell, val) ==
    IF IsNull(cell) THEN o = OpNe ELSE Holds(o, NumLess(cell, val), NumEq(cell, val))

\* One element of an object column against a str.
StrCellHolds(o, cell, val) ==
    IF IsNull(cell) THEN o = OpNe ELSE Holds(o, StrLess(cell.s, val.s), cell.s = val.s)

\* ops[op](df[col], val): returns the boolean mask, or raises TypeError.
\*   - a NaN scalar compares unequal to everything;
\*   - a numeric column against a str is an invalid comparison: == is all
\*     False, != all True, an ordering raises;
\*   - an object column compares element by element, and a str element
\*     against a number raises for an ordering.
CompareColumn(d, col, o, val) ==
    LET cells == Column(d, col)
        all(b) == [i \in 1..Len(cells) |-> b]
    IN  IF IsNull(val) THEN Return(all(o = OpNe))
        ELSE IF ColDtype(d, col) \in {"int64", "float64"} THEN
            IF val.t = "str" THEN
                IF IsOrdering(o) THEN Raise(Exc("TypeError", <<>>)) ELSE Return(all(o = OpNe))
            ELSE Return([i \in 1..Len(cells) |-> NumCellHolds(o, cells[i], val)])
        ELSE IF val.t = "str"
             THEN Return([i \in 1..Len(cells) |-> StrCellHolds(o, cells[i], val)])
        ELSE IF IsOrdering(o) /\ \E i \in 1..Len(cells) : ~IsNull(cells[i])
             THEN Raise(Exc("TypeError", <<>>))
        ELSE Return(all(o = OpNe))

IsExc(x) == x.t \in {"ValueError", "TypeError", "ParserError", "EmptyDataError", "PandaSQLException"}

\* df[mask]
SelectMask(d, mask) == TakeRows(d, Ascending({i \in 1..Len(mask) : mask[i]}))

(***************************************************************************)
(* QueryTool: the patterns                                                 *)
(***************************************************************************)

\* [\w\-\s]
IsColChar(c) == IsWordChar(c) \/ c = "-" \/ IsSpace(c)

\* SIMPLE_PATTERNS in dict order: ^<prefix>([\w\-\s]+)$, and ^count rows$
SIMPLE_PATTERNS ==
    <<[prefix |-> <<"a", "v", "e", "r", "a", "g", "e", " ", "o", "f", " ">>, kind |-> "avg"],
      [prefix |-> <<"m", "e", "a", "n", " ", "o", "f", " ">>, kind |-> "avg"],
      [prefix |-> <<"s", "u", "m", " ", "o", "f", " ">>, kind |-> "sum"],
      [prefix |-> <<"m", "a", "x", " ", "o", "f", " ">>, kind |-> "max"],
      [prefix |-> <<"m", "i", "n", " ", "o", "f", " ">>, kind |-> "min"],
      [prefix |-> <<"c", "o", "u", "n", "t", " ", "r", "o", "w", "s">>, kind |-> "count_rows"],
      [prefix |-> <<"u", "n", "i", "q", "u", "e", " ", "v", "a", "l", "u", "e", "s", " ", "o", "f", " ">>, kind |-> "unique"]>>

\* re.match(pat, p) for a pattern of SIMPLE_PATTERNS
SimpleMatches(pat, p) ==
    IF pat.kind = "count_rows" THEN p = pat.prefix
    ELSE /\ StartsWith(p, pat.prefix)
         /\ Len(p) > Len(pat.prefix)
         /\ \A i \in (Len(pat.prefix) + 1)..Len(p) : IsColChar(p[i])

\* m.group(1)
SimpleGroup(pat, p) == From(p, Len(pat.prefix))

FilterLit == <<"f", "i", "l", "t", "e", "r", " ">>
ShowTopLit == <<"a", "n", "d", " ", "s", "h", "o", "w", " ", "t", "o", "p">>

\* (==|=|>=|<=|>|<|!=), in the order the alternatives are tried
OpAlternatives == <<<<"=", "=">>, <<"=">>, <<">", "=">>, <<"<", "=">>, <<">">>, <<"<">>, <<"!", "=">>>>

NoMatch == [t |-> "NoneType"]

\* re.match(FILTER_PATTERN, p): the groups (col, op, val, topn) and the
\* spans of groups 1 and 3 (m.span), or NoMatch.
\*   ^filter ([\w\-\s]+)\s*(==|=|>=|<=|>|<|!=)\s*([^\s]+)\s*and show top\s*(\d+)$
\* \d+ is the run of digits that ends p; "and show top" ends right before
\* the white space in front of it; group 1 is greedy and none of its
\* characters starts an operator, so it runs to the first character outside
\* its class, where the operator starts; the first alternative that leaves
\* a value (one run of non-space characters, white space around it) between
\* the operator and "and show top" is the match.
FilterMatch(p) ==
    LET n == Len(p)
        nonDigit == {i \in 1..n : ~IsDigit(p[i])}
        dstart == IF nonDigit = {} THEN 1 ELSE SetMax(nonDigit) + 1
        nonSpace == {i \in 1..(dstart - 1) : ~IsSpace(p[i])}
        lend == IF nonSpace = {} THEN 0 ELSE SetMax(nonSpace)
        lstart == lend - Len(ShowTopLit) + 1
        nonCol == {i \in (Len(FilterLit) + 1)..n : ~IsColChar(p[i])}
        ostart == IF nonCol = {} THEN n + 1 ELSE SetMin(nonCol)
        seg(alt) == SubSeq(p, ostart + Len(alt), lstart - 1)
        fits(alt) ==
            /\ ostart + Len(alt) <= lstart
            /\ SubSeq(p, ostart, ostart + Len(alt) - 1) = alt
            /\ Strip(seg(alt)) # <<>>
            /\ \A i \in 1..Len(Strip(seg(alt))) : ~IsSpace(Strip(seg(alt))[i])
        alts == {k \in 1..Len(OpAlternatives) : fits(OpAlternatives[k])}
        alt == OpAlternatives[SetMin(alts)]
        valChars == {i \in (ostart + Len(alt))..(lstart - 1) : ~IsSpace(p[i])}
    IN  IF /\ StartsWith(p, FilterLit)
           /\ dstart <= n
           /\ lstart > Len(FilterLit)
           /\ SubSeq(p, lstart, lend) = ShowTopLit
           /\ ostart > Len(FilterLit) + 1
           /\ alts # {}
        THEN [t |-> "Match",
              col |-> SubSeq(p, Len(FilterLit) + 1, ostart - 1),
              op |-> alt,
              val |-> Strip(seg(alt)),
              topn |-> SubSeq(p, dstart, n),
              span |-> [col |-> <<Len(FilterLit) + 1, ostart - 1>>,
                        val |-> <<SetMin(valChars), SetMax(valChars)>>]]
        ELSE NoMatch

(***************************************************************************)
(* QueryTool: the aggregates                                               *)
(***************************************************************************)

\* a + b on floats
AddF(a, b) ==
    IF IsNull(a) \/ IsNull(b) THEN NaN
    ELSE IF IsInfinite(a) THEN (IF IsInfinite(b) /\ b.sign # a.sign THEN NaN ELSE a)
    ELSE IF IsInfinite(b) THEN b
    ELSE LET lo == IF a.e < b.e THEN a.e ELSE b.e
         IN  FloatV(a.m * Pow10(a.e - lo) + b.m * Pow10(b.e - lo), lo)

\* a / n for a float a and a count n > 0; kept as a ratio when the quotient
\* has no finite decimal expansion the mantissa can hold
DivF(a, n) ==
    IF IsNull(a) \/ IsInfinite(a) THEN a
    ELSE IF a.m % n = 0 THEN FloatV(a.m \div n, a.e)
    ELSE [t |-> "float", k |-> "ratio", num |-> a, den |-> n]

\* float(x) for one element of astype(float); a str goes through float()
CanFloat(cell) == cell.t # "str" \/ FloatParses(cell.s)
AsFloat(cell) ==
    IF cell.t = "str" THEN FloatValue(cell.s)
    ELSE IF cell.t = "int" THEN FloatV(cell.v, 0)
    ELSE cell

NonNull(cells) == SelectSeq(cells, LAMBDA c : ~IsNull(c))

RECURSIVE SumF(_)
SumF(cells) == IF cells = <<>> THEN FloatV(0, 0) ELSE AddF(AsFloat(cells[1]), SumF(Tail(cells)))

\* float(df[col].astype(float).mean()): NaN is skipped, a str that float()
\* rejects makes astype raise ValueError
AggAvg(cells) ==
    IF \E i \in 1..Len(cells) : ~CanFloat(cells[i]) THEN Raise(Exc("ValueError", <<>>))
    ELSE LET vals == NonNull([i \in 1..Len(cells) |-> AsFloat(cells[i])])
         IN  Return(IF vals = <<>> THEN NaN ELSE DivF(SumF(vals), Len(vals)))

\* float(df[col].astype(float).sum())
AggSum(cells) ==
    IF \E i \in 1..Len(cells) : ~CanFloat(cells[i]) THEN Raise(Exc("ValueError", <<>>))
    ELSE Return(SumF(NonNull([i \in 1..Len(cells) |-> AsFloat(cells[i])])))

\* The numpy scalar a numeric reduction returns: type(x).__name__ is int64 or float64.
NumpyScalar(v) == [t |-> IF v.t = "int" THEN "int64" ELSE "float64", item |-> v]

CellLess(a, b) == IF a.t = "str" THEN StrLess(a.s, b.s) ELSE NumLess(a, b)

\* df[col].max() / df[col].min(): NaN is skipped; a numeric column gives a
\* numpy scalar, an object column of str the greatest str.  An object column
\* that mixes str and NaN compares a str with a float and raises TypeError
\* (no input of the model holds such a column).
AggExtreme(cells, dtype, wantMax) ==
    LET vals == NonNull(cells)
        best == CHOOSE i \in 1..Len(vals) : \A j \in 1..Len(vals) :
                    IF wantMax THEN ~CellLess(vals[i], vals[j]) ELSE ~CellLess(vals[j], vals[i])
    IN  IF dtype = "object" /\ vals # <<>> /\ Len(vals) < Len(cells)
        THEN Raise(Exc("TypeError", <<>>))
        ELSE IF vals = <<>> THEN Return(IF dtype = "object" THEN NaN ELSE NumpyScalar(NaN))
        ELSE Return(IF dtype = "object" THEN vals[best] ELSE NumpyScalar(vals[best]))

\* df[col].dropna().unique().tolist(): first occurrences, in order
RECURSIVE Unique(_)
Unique(cells) ==
    IF cells = <<>> THEN <<>>
    ELSE LET init == Unique(SubSeq(cells, 1, Len(cells) - 1))
             last == cells[Len(cells)]
         IN  IF \E i \in 1..Len(init) : init[i] = last THEN init ELSE Append(init, last)

ListV(items) == [t |-> "list", items |-> items]

(***************************************************************************)
(* QueryTool.simple and QueryTool.sql                                      *)
(***************************************************************************)

ColumnNotFound(col) == StrV(<<"C", "o", "l", "u", "m", "n", " ", "'">> \o col \o <<"'", " ", "n", "o", "t", " ", "f", "o", "u", "n", "d", ".">>)

Unrecognized == StrV(<<"U", "n", "r", "e", "c", "o", "g", "n", "i", "z", "e", "d", " ", "p", "a", "t", "t", "e", "r", "n", ".", " ", "T", "r", "y", ":", " ", "'", "a", "v", "e", "r", "a", "g", "e", " ", "o", "f", " ", "<", "c", "o", "l", ">", "'", ",", " ", "'", "s", "u", "m", " ", "o", "f", " ", "<", "c", "o", "l", ">", "'", ",", " ", "'", "c", "o", "u", "n", "t", " ", "r", "o", "w", "s", "'", ",", " ", "'", "u", "n", "i", "q", "u", "e", " ", "v", "a", "l", "u", "e", "s", " ", "o", "f", " ", "<", "c", "o", "l", ">", "'", ",", " ", "o", "r", " ", "'", "f", "i", "l", "t", "e", "r", " ", "<", "c", "o", "l", ">", " ", ">", " ", "1", "0", " ", "a", "n", "d", " ", "s", "h", "o", "w", " ", "t", "o", "p", " ", "5", "'", ".", " ", "T", "o", " ", "u", "s", "e", " ", "S", "Q", "L", ",", " ", "s", "t", "a", "r", "t", " ", "w", "i", "t", "h", " ", "'", "s", "q", "l", ":", "'", ".">>)

\* The body of the filter branch, given the match.
FilterBranch(d, m) ==
    LET col == Strip(m.col)
        val == Coerce(m.val)
        topn == IntValue(m.topn)
        mask == CompareColumn(d, col, m.op, val)
    IN  IF ~HasColumn(d, col) THEN Return(ColumnNotFound(col))
        ELSE IF mask.outcome = "raise" THEN mask
        ELSE Return(DfHead(SelectMask(d, mask.value), topn))

\* The body of the loop over SIMPLE_PATTERNS for the first pattern that matches.
AggregateBranch(d, pat, p) ==
    LET col == Strip(SimpleGroup(pat, p))
    IN  IF pat.kind = "count_rows" THEN Return(IntV(NRows(d)))
        ELSE IF ~HasColumn(d, col) THEN Return(ColumnNotFound(col))
        ELSE IF pat.kind = "avg" THEN AggAvg(Column(d, col))
        ELSE IF pat.kind = "sum" THEN AggSum(Column(d, col))
        ELSE IF pat.kind = "max" THEN AggExtreme(Column(d, col), ColDtype(d, col), TRUE)
        ELSE IF pat.kind = "min" THEN AggExtreme(Column(d, col), ColDtype(d, col), FALSE)
        ELSE Return(ListV(Unique(NonNull(Column(d, col)))))

\* The patterns of SIMPLE_PATTERNS that match p, by position.
SimpleHits(p) == {k \in 1..Len(SIMPLE_PATTERNS) : SimpleMatches(SIMPLE_PATTERNS[k], p)}

\* simple() with an unrecognized prompt raising instead of returning the hint
SimpleRaisesUnrecognized(d, prompt) ==
    LET p == Lower(Strip(prompt))
        m == FilterMatch(p)
        hits == SimpleHits(p)
    IN  IF d = NoDF THEN Raise(NotLoaded) @@ [shape |-> "none"]
        ELSE IF m # NoMatch THEN FilterBranch(d, m) @@ [shape |-> "filter"]
        ELSE IF hits # {}
             THEN AggregateBranch(d, SIMPLE_PATTERNS[SetMin(hits)], p)
                      @@ [shape |-> SIMPLE_PATTERNS[SetMin(hits)].kind]
        ELSE Raise(Exc("ValueError", Unrecognized.s)) @@ [shape |-> "none"]

\* QueryTool.simple(prompt): what it returns or raises, and the pattern taken.
Simple(d, prompt) ==
    LET p == Lower(Strip(prompt))
        m == FilterMatch(p)
        hits == SimpleHits(p)
    IN  IF d = NoDF THEN Raise(NotLoaded) @@ [shape |-> "none"]
        ELSE IF m # NoMatch THEN FilterBranch(d, m) @@ [shape |-> "filter"]
        ELSE IF hits # {}
             THEN AggregateBranch(d, SIMPLE_PATTERNS[SetMin(hits)], p)
                      @@ [shape |-> SIMPLE_PATTERNS[SetMin(hits)].kind]
        ELSE Return(Unrecognized) @@ [shape |-> "none"]

SqlCountRows == <<"s", "e", "l", "e", "c", "t", " ", "c", "o", "u", "n", "t", "(", "*", ")", " ", "c", " ", "f", "r", "o", "m", " ", "d", "f">>
SqlSelectAll == <<"s", "e", "l", "e", "c", "t", " ", "*", " ", "f", "r", "o", "m", " ", "d", "f">>

\* sqldf(query, {"df": df}): the engine is SQLite behind pandasql.  Two
\* queries are answered, every other query of the model's inputs is one the
\* engine rejects (unknown table, syntax error, empty statement).
SqlDf(query, d) ==
    IF Lower(query) = SqlCountRows
    THEN Return([t |-> "DataFrame", columns |-> <<<<"c">>>>, dtypes |-> <<"int64">>,
                 index |-> <<0>>, rows |-> <<<<IntV(NRows(d))>>>>])
    ELSE IF Lower(query) = SqlSelectAll
    THEN Return([d EXCEPT !.index = [i \in 1..NRows(d) |-> i - 1]])
    ELSE Raise(Exc("PandaSQLException", query))

\* QueryTool.sql(query)
Sql(d, query) ==
    IF d = NoDF THEN Raise(NotLoaded) @@ [shape |-> "sql"]
    ELSE SqlDf(query, d) @@ [shape |-> "sql"]

(***************************************************************************)
(* CSVTool, ProfileTool, ChartTool                                         *)
(***************************************************************************)

None == [t |-> "NoneType"]

\* f"Loaded '{filename}' with {len(df)} rows x {len(df.columns)} columns."
\* (the multiplication sign of the message is held by the placeholder "(times)")
LoadedMessage(filename, d) ==
    <<"L", "o", "a", "d", "e", "d", " ", "'">> \o filename \o <<"'", " ", "w", "i", "t", "h", " ">> \o IntStr(NRows(d))
        \o <<" ", "r", "o", "w", "s", " ">> \o <<"(times)">> \o <<" ">> \o IntStr(Len(d.columns)) \o <<" ", "c", "o", "l", "u", "m", "n", "s", ".">>

\* load() with the name stored before the bytes are parsed
CsvLoadNameFirst(d, nm, bytes, filename, sep) ==
    LET parsed == ReadCsv(bytes, sep)
    IN  IF IsExc(parsed) THEN Raise(parsed) @@ [df |-> d, name |-> StrV(filename)]
        ELSE Return(StrV(LoadedMessage(filename, parsed))) @@ [df |-> parsed, name |-> StrV(filename)]

\* CSVTool.load(file_bytes, filename, sep=sep) on a store holding (d, nm):
\* how the call ends and the store it leaves.
CsvLoad(d, nm, bytes, filename, sep) ==
    LET parsed == ReadCsv(bytes, sep)
    IN  IF IsExc(parsed) THEN Raise(parsed) @@ [df |-> d, name |-> nm]
        ELSE Return(StrV(LoadedMessage(filename, parsed))) @@ [df |-> parsed, name |-> StrV(filename)]

\* CSVTool.available()
Available(d) == d # NoDF

\* head() without the check for a missing DataFrame: None has no head()
CsvHeadUnchecked(d, n) ==
    IF d = NoDF THEN Raise(Exc("AttributeError", <<>>)) ELSE Return(DfHead(d, n))

\* CSVTool.head(n)
CsvHead(d, n) == IF d = NoDF THEN Raise(NotLoaded) ELSE Return(DfHead(d, n))

DtypeName(dtype) ==
    IF dtype = "int64" THEN <<"i", "n", "t", "6", "4">>
    ELSE IF dtype = "float64" THEN <<"f", "l", "o", "a", "t", "6", "4">>
    ELSE <<"o", "b", "j", "e", "c", "t">>

NullCount(d, j) == Cardinality({i \in 1..NRows(d) : IsNull(d.rows[i][j])})
UniqueCount(d, j) == Len(Unique(NonNull([i \in 1..NRows(d) |-> d.rows[i][j]])))

Labels(names) == [j \in 1..Len(names) |-> StrV(names[j])]

\* ProfileTool.schema()
Schema(d) ==
    IF ~Available(d) THEN Raise(NotLoaded)
    ELSE Return([t |-> "DataFrame",
                 columns |-> <<<<"c", "o", "l", "u", "m", "n">>, <<"d", "t", "y", "p", "e">>, <<"n", "o", "n", "_", "n", "u", "l", "l">>, <<"n", "u", "l", "l", "s">>, <<"u", "n", "i", "q", "u", "e">>>>,
                 dtypes |-> <<"object", "object", "int64", "int64", "int64">>,
                 index |-> [j \in 1..Len(d.columns) |-> j - 1],
                 rows |-> [j \in 1..Len(d.columns) |->
                             <<StrV(d.columns[j]), StrV(DtypeName(d.dtypes[j])),
                               IntV(NRows(d) - NullCount(d, j)), IntV(NullCount(d, j)),
                               IntV(UniqueCount(d, j))>>]])

\* ProfileTool.stats(): describe(include="all").T has one row per column; of
\* its statistics the count of non-null cells is kept.
Stats(d) ==
    IF ~Available(d) THEN Raise(NotLoaded)
    ELSE Return([t |-> "DataFrame",
                 columns |-> <<<<"c", "o", "u", "n", "t">>>>,
                 dtypes |-> <<"object">>,
                 index |-> Labels(d.columns),
                 rows |-> [j \in 1..Len(d.columns) |-> <<IntV(NRows(d) - NullCount(d, j))>>]])

\* Column positions by descending count of nulls, ties in column order.
RECURSIVE ByNullsDescending(_, _)
ByNullsDescending(d, left) ==
    IF left = {} THEN <<>>
    ELSE LET top == CHOOSE j \in left : \A k \in left :
                        \/ NullCount(d, j) > NullCount(d, k)
                        \/ NullCount(d, j) = NullCount(d, k) /\ j <= k
         IN  <<top>> \o ByNullsDescending(d, left \ {top})

\* ProfileTool.missingness(): the ratio of nulls per column, greatest first
Missingness(d) ==
    IF ~Available(d) THEN Raise(NotLoaded)
    ELSE LET order == ByNullsDescending(d, 1..Len(d.columns))
         IN  Return([t |-> "DataFrame",
                     columns |-> <<<<"c", "o", "l", "u", "m", "n">>, <<"m", "i", "s", "s", "i", "n", "g", "_", "r", "a", "t", "i", "o">>>>,
                     dtypes |-> <<"object", "float64">>,
                     index |-> [i \in 1..Len(order) |-> order[i] - 1],
                     rows |-> [i \in 1..Len(order) |->
                                 <<StrV(d.columns[order[i]]),
                                   IF NRows(d) = 0 THEN NaN
                                   ELSE DivF(FloatV(NullCount(d, order[i]), 0), NRows(d))>>]])

\* ProfileTool.correlations(): the note when select_dtypes leaves nothing
\* (no numeric column, or no row), else the matrix over the numeric columns;
\* a coefficient is kept as the pair of columns it relates.
Correlations(d) ==
    LET num == SelectSeq([j \in 1..Len(d.columns) |-> j],
                         LAMBDA j : d.dtypes[j] \in {"int64", "float64"})
    IN  IF ~Available(d) THEN Raise(NotLoaded)
        ELSE IF num = <<>> \/ NRows(d) = 0
        THEN Return([t |-> "DataFrame", columns |-> <<<<"n", "o", "t", "e">>>>, dtypes |-> <<"object">>,
                     index |-> <<0>>, rows |-> <<<<StrV(<<"N", "o", " ", "n", "u", "m", "e", "r", "i", "c", " ", "c", "o", "l", "u", "m", "n", "s", " ", "f", "o", "r", " ", "c", "o", "r", "r", "e", "l", "a", "t", "i", "o", "n">>)>>>>])
        ELSE Return([t |-> "DataFrame",
                     columns |-> [i \in 1..Len(num) |-> d.columns[num[i]]],
                     dtypes |-> [i \in 1..Len(num) |-> "float64"],
                     index |-> [i \in 1..Len(num) |-> StrV(d.columns[num[i]])],
                     rows |-> [i \in 1..Len(num) |-> [j \in 1..Len(num) |->
                                 [t |-> "float", k |-> "corr", of |-> <<num[i], num[j]>>]]]])

\* ChartTool.available_columns()
AvailableColumns(d) == IF ~Available(d) THEN ListV(<<>>) ELSE ListV(Labels(d.columns))

\* df[[c for c in [x, y] if c is not None]]
Project(d, x, y) ==
    LET picked == IF y = None THEN <<x.s>> ELSE <<x.s, y.s>>
    IN  [t |-> "DataFrame",
         columns |-> picked,
         dtypes |-> [k \in 1..Len(picked) |-> ColDtype(d, picked[k])],
         index |-> d.index,
         rows |-> [i \in 1..NRows(d) |-> [k \in 1..Len(picked) |-> d.rows[i][ColPos(d, picked[k])]]]]

\* ChartTool.data_for_chart(x, y, kind); kind is not read
DataForChart(d, x, y, kind) ==
    IF ~Available(d) THEN Raise(NotLoaded)
    ELSE IF ~HasColumn(d, x.s) THEN Raise(Exc("ValueError", ColumnNotFound(x.s).s))
    ELSE IF y # None /\ ~HasColumn(d, y.s) THEN Raise(Exc("ValueError", ColumnNotFound(y.s).s))
    ELSE Return(Project(d, x, y))

(***************************************************************************)
(* CSVAgent                                                                *)
(***************************************************************************)

MemoryCap == 50

RoleUser == <<"u", "s", "e", "r">>
RoleAgent == <<"a", "g", "e", "n", "t">>
RoleSystem == <<"s", "y", "s", "t", "e", "m">>

\* f"{role.upper()}: {content}"
Entry(role, content) == Upper(role) \o <<":", " ">> \o content

\* _remember keeping the oldest entries: self.memory[:50]
RememberKeepsOldest(mem, role, content) ==
    LET grown == Append(mem, Entry(role, content))
    IN  IF Len(grown) > MemoryCap THEN SubSeq(grown, 1, MemoryCap) ELSE grown

\* CSVAgent._remember(role, content): the memory it leaves
Remember(mem, role, content) ==
    LET grown == Append(mem, Entry(role, content))
    IN  IF Len(grown) > MemoryCap
        THEN SubSeq(grown, Len(grown) - MemoryCap + 1, Len(grown))
        ELSE grown

\* type(res).__name__
TypeName(v) ==
    IF v.t = "int" THEN <<"i", "n", "t">>
    ELSE IF v.t = "float" THEN <<"f", "l", "o", "a", "t">>
    ELSE IF v.t = "str" THEN <<"s", "t", "r">>
    ELSE IF v.t = "list" THEN <<"l", "i", "s", "t">>
    ELSE IF v.t = "int64" THEN <<"i", "n", "t", "6", "4">>
    ELSE IF v.t = "float64" THEN <<"f", "l", "o", "a", "t", "6", "4">>
    ELSE <<"D", "a", "t", "a", "F", "r", "a", "m", "e">>

SqlPrefix == <<"s", "q", "l", ":">>

\* the test of ask() without lower(): only a lower-case prefix is SQL
IsSqlPromptCaseSensitive(text) == StartsWith(Strip(text), SqlPrefix)

\* text.strip().lower().startswith("sql:")
IsSqlPrompt(text) == StartsWith(Lower(Strip(text)), SqlPrefix)

\* text.strip()[4:].strip()
SqlQueryOf(text) == Strip(From(Strip(text), 4))

(***************************************************************************)
(* The public calls of CSVAgent, one action each                           *)
(***************************************************************************)

NoTrace == [route |-> "none"]

\* What every call leaves behind for the caller: how it ended.
Done(o, a, r, tr) ==
    /\ op' = o
    /\ arg' = a
    /\ outcome' = r.outcome
    /\ result' = r.value
    /\ trace' = tr

\* CSVAgent.load_csv(file_bytes, filename, sep=sep)
LoadCsv(file, sep) ==
    LET r == CsvLoad(df, name, file.bytes, file.name, sep)
    IN  /\ df' = r.df
        /\ name' = r.name
        /\ memory' = IF r.outcome = "return"
                     THEN Remember(memory, RoleSystem, r.value.s) ELSE memory
        /\ recorded' = IF r.outcome = "return"
                       THEN Append(recorded, Entry(RoleSystem, r.value.s)) ELSE recorded
        /\ Done("load_csv", [file |-> file, sep |-> sep], r, NoTrace)

\* head() cutting the stored DataFrame down to the rows it returns
HeadCallInPlace(n) ==
    /\ df' = IF df = NoDF THEN df ELSE DfHead(df, n)
    /\ UNCHANGED <<name, memory, recorded>>
    /\ Done("head", [n |-> n], CsvHead(df, n), NoTrace)

\* CSVAgent.head(n)
HeadCall(n) ==
    /\ UNCHANGED <<df, name, memory, recorded>>
    /\ Done("head", [n |-> n], CsvHead(df, n), NoTrace)

\* CSVAgent.profile_schema()
ProfileSchema ==
    /\ UNCHANGED <<df, name, memory, recorded>>
    /\ Done("profile_schema", [n |-> 0], Schema(df), NoTrace)

\* CSVAgent.profile_stats()
ProfileStats ==
    /\ UNCHANGED <<df, name, memory, recorded>>
    /\ Done("profile_stats", [n |-> 0], Stats(df), NoTrace)

\* CSVAgent.profile_missing()
ProfileMissing ==
    /\ UNCHANGED <<df, name, memory, recorded>>
    /\ Done("profile_missing", [n |-> 0], Missingness(df), NoTrace)

\* CSVAgent.profile_corr()
ProfileCorr ==
    /\ UNCHANGED <<df, name, memory, recorded>>
    /\ Done("profile_corr", [n |-> 0], Correlations(df), NoTrace)

\* CSVAgent.ask(text): the user turn is remembered, the text is routed, and
\* the agent turn is remembered when the tool returned.
Ask(text) ==
    LET sqlRoute == IsSqlPrompt(text)
        handed == IF sqlRoute THEN SqlQueryOf(text) ELSE text
        r == IF sqlRoute THEN Sql(df, handed) ELSE Simple(df, handed)
        asked == Remember(memory, RoleUser, text)
    IN  /\ memory' = IF r.outcome = "return"
                     THEN Remember(asked, RoleAgent, TypeName(r.value)) ELSE asked
        /\ recorded' = IF r.outcome = "return"
                       THEN recorded \o <<Entry(RoleUser, text), Entry(RoleAgent, TypeName(r.value))>>
                       ELSE Append(recorded, Entry(RoleUser, text))
        /\ UNCHANGED <<df, name>>
        /\ Done("ask", [text |-> text], r,
                [route |-> IF sqlRoute THEN "sql" ELSE "simple",
                 handed |-> handed, shape |-> r.shape])

\* CSVAgent.chart_data(x, y, kind)
ChartData(x, y, kind) ==
    /\ UNCHANGED <<df, name, memory, recorded>>
    /\ Done("chart_data", [x |-> x, y |-> y, kind |-> kind], DataForChart(df, x, y, kind), NoTrace)

\* CSVAgent.available_columns()
AvailableColumnsCall ==
    /\ UNCHANGED <<df, name, memory, recorded>>
    /\ Done("available_columns", [n |-> 0], Return(AvailableColumns(df)), NoTrace)

\* CSVAgent(): no DataFrame, the name "", an empty memory
Init ==
    /\ df = NoDF
    /\ name = StrV(<<>>)
    /\ memory = <<>>
    /\ recorded = <<>>
    /\ op = "new"
    /\ arg = [n |-> 0]
    /\ outcome = "return"
    /\ result = None
    /\ trace = NoTrace

(***************************************************************************)
(* Inputs                                                                  *)
(***************************************************************************)

\* city is a column of str, qty a column of int
FileShop == [name |-> <<"s", "h", "o", "p", ".", "c", "s", "v">>,
             bytes |-> <<"c", "i", "t", "y", ",", "q", "t", "y", "\n", "P", "a", "r", "i", "s", ",", "3", "\n", "r", "o", "m", "e", ",", "5", "\n", "O", "s", "l", "o", ",", "3", "\n", "P", "a", "r", "i", "s", ",", "7", "\n">>]
\* read with sep=";": Item is a column of str, Qty a column of float with a
\* NaN (the row "ink" is short), the blank line is skipped
FileStock == [name |-> <<"s", "t", "o", "c", "k", ".", "c", "s", "v">>,
              bytes |-> <<"I", "t", "e", "m", ";", "Q", "t", "y", "\n", "p", "e", "n", ";", "1", "0", "\n", "i", "n", "k", "\n", "\n", "n", "i", "b", ";", "2", "\n">>]
\* the third line has four fields under a header of two
FileBad == [name |-> <<"b", "a", "d", ".", "c", "s", "v">>,
            bytes |-> <<"a", ",", "b", "\n", "1", ",", "2", "\n", "3", ",", "4", ",", "5", ",", "6", "\n">>]
FileEmpty == [name |-> <<"e", "m", "p", "t", "y", ".", "c", "s", "v">>, bytes |-> <<>>]

\* An upload: the file and the delimiter typed with it (sep of read_csv).
Uploads == {[file |-> FileShop, sep |-> ","], [file |-> FileStock, sep |-> ";"],
            [file |-> FileBad, sep |-> ","], [file |-> FileEmpty, sep |-> ","]}

T_CountRows == <<"c", "o", "u", "n", "t", " ", "r", "o", "w", "s">>
T_MeanCity == <<"m", "e", "a", "n", " ", "o", "f", " ", "c", "i", "t", "y">>
T_Filter == <<"f", "i", "l", "t", "e", "r", " ", "q", "t", "y", " ", ">", " ", "3", " ", "a", "n", "d", " ", "s", "h", "o", "w", " ", "t", "o", "p", " ", "2">>
T_SqlCount == <<"s", "q", "l", ":", " ", "s", "e", "l", "e", "c", "t", " ", "c", "o", "u", "n", "t", "(", "*", ")", " ", "c", " ", "f", "r", "o", "m", " ", "d", "f">>
T_SqlBad == <<"S", "Q", "L", ":", " ", "s", "e", "l", "e", "c", "t", " ", "*", " ", "f", "r", "o", "m", " ", "n", "o", "p", "e">>

AskTexts == {T_CountRows, T_MeanCity, T_Filter, T_SqlCount, T_SqlBad}

MaxHead == 1
ChartX == {StrV(<<"q", "t", "y">>), StrV(<<"n", "o", "p", "e">>)}
ChartY == {None, StrV(<<"c", "i", "t", "y">>)}
ChartKinds == {"line", "hist"}

\* The session ends once MaxHistory entries have been handed to _remember.
MaxHistory == 3

Next ==
    \/ Len(recorded) < MaxHistory /\ \E u \in Uploads : LoadCsv(u.file, u.sep)
    \/ Len(recorded) < MaxHistory /\ \E t \in AskTexts : Ask(t)
    \/ \E n \in 0..MaxHead : HeadCall(n)
    \/ ProfileSchema
    \/ ProfileStats
    \/ ProfileMissing
    \/ ProfileCorr
    \/ \E x \in ChartX, y \in ChartY, kind \in ChartKinds : ChartData(x, y, kind)
    \/ AvailableColumnsCall

Spec == Init /\ [][Next]_vars

(***************************************************************************)
(* Long sessions: the memory past its cap                                  *)
(***************************************************************************)

\* A long session ends once MaxLogHistory entries have been handed to
\* _remember, and uploads at most MaxLogLoads files.
MaxLogHistory == 52
MaxLogLoads == 2

\* The uploads so far: each left one SYSTEM entry.
SystemTurns(h) == Cardinality({i \in 1..Len(h) : StartsWith(h[i], Upper(RoleSystem))})

NextLog ==
    \/ /\ Len(recorded) < MaxLogHistory
       /\ SystemTurns(recorded) < MaxLogLoads
       /\ LoadCsv(FileShop, ",")
    \/ Len(recorded) < MaxLogHistory /\ Ask(T_CountRows)

SpecLog == Init /\ [][NextLog]_vars

(***************************************************************************)
(* _coerce_value on its own                                                *)
(***************************************************************************)

MaxTokenLen == 3
TokenAlphabet == {"1", "2", ".", "-", "_", "'", "e", "n", "a"}
WordTokens ==
    {<<"t", "r", "u", "e">>, <<"T", "R", "U", "E">>, <<"F", "a", "l", "s", "e">>, <<"f", "a", "l", "s", "e">>, <<"i", "n", "f">>, <<"-", "I", "n", "f", "i", "n", "i", "t", "y">>, <<"N", "a", "N">>,
     <<"p", "a", "r", "i", "s">>, <<"P", "a", "r", "i", "s">>, <<"'", "a", "b", "c", "'">>, <<"\"", "x", "\"">>, <<"4", "2">>, <<"3", ".", "1", "4">>, <<"a", "b", "c">>,
     <<"+", "7">>, <<"1", "_", "0", "0", "0">>}

\* Every token of at most MaxTokenLen characters of the alphabet, and the words.
Tokens == WordTokens \cup UNION {[1..n -> TokenAlphabet] : n \in 0..MaxTokenLen}

\* QueryTool._coerce_value(v)
CoerceCall(v) ==
    /\ UNCHANGED <<df, name, memory, recorded>>
    /\ Done("_coerce_value", [text |-> v], Return(Coerce(v)), NoTrace)

\* One call on a new tool.
NextCoerce == op = "new" /\ \E v \in Tokens : CoerceCall(v)

SpecCoerce == Init /\ [][NextCoerce]_vars

(***************************************************************************)
(* One question per session: the texts of ask()                            *)
(***************************************************************************)

MaxPad == 1
MaxTopN == 2

\* Runs of at most MaxPad spaces.
Pads == {[i \in 1..n |-> " "] : n \in 0..MaxPad}

\* Column names as a user may write them; the files hold city, qty, Item, Qty.
WrittenColumns == {<<"q", "t", "y">>, <<"Q", "t", "y">>, <<"c", "i", "t", "y">>, <<"C", "i", "t", "y">>, <<"I", "t", "e", "m">>, <<"n", "o", "p", "e">>}
WrittenOps == {<<"=", "=">>, <<"=">>, <<">", "=">>, <<"<", "=">>, <<">">>, <<"<">>, <<"!", "=">>,
               <<"<", ">">>}
WrittenValues == {<<"3">>, <<"5", ".", "0">>, <<"P", "a", "r", "i", "s">>, <<"p", "a", "r", "i", "s">>, <<"'", "r", "o", "m", "e", "'">>, <<"a", "b", "c">>, <<"t", "r", "u", "e">>, <<"n", "a", "n">>}

FilterTexts ==
    {kw \o <<" ">> \o col \o <<" ">> \o o \o gap \o val \o <<" ">> \o ShowTopLit
          \o <<" ">> \o IntStr(n) :
        kw \in {<<"f", "i", "l", "t", "e", "r">>, <<"F", "I", "L", "T", "E", "R">>}, col \in WrittenColumns, o \in WrittenOps,
        gap \in {<<>>, <<" ">>}, val \in WrittenValues, n \in 0..MaxTopN}

AggregateWords == {<<"a", "v", "e", "r", "a", "g", "e", " ", "o", "f", " ">>, <<"m", "e", "a", "n", " ", "o", "f", " ">>, <<"s", "u", "m", " ", "o", "f", " ">>, <<"m", "a", "x", " ", "o", "f", " ">>, <<"m", "i", "n", " ", "o", "f", " ">>, <<"c", "o", "u", "n", "t", " ", "r", "o", "w", "s">>, <<"u", "n", "i", "q", "u", "e", " ", "v", "a", "l", "u", "e", "s", " ", "o", "f", " ">>,
                   <<"S", "u", "m", " ", "O", "f", " ">>, <<"C", "O", "U", "N", "T", " ", "R", "O", "W", "S">>, <<"t", "o", "t", "a", "l", " ", "o", "f", " ">>}

AggregateTexts ==
    {lead \o w \o col \o tail :
        lead \in Pads, w \in AggregateWords, col \in WrittenColumns \cup {<<>>},
        tail \in {<<>>, <<" ">>, <<"!">>}}

SqlWords == {<<"s", "q", "l", ":">>, <<"S", "Q", "L", ":">>, <<"S", "q", "l", ":">>, <<"s", "q", "l">>, <<"s", "q", " ", "l", ":">>}
SqlQueries == {SqlCountRows, <<"S", "E", "L", "E", "C", "T", " ", "*", " ", "F", "R", "O", "M", " ", "d", "f">>, <<"s", "e", "l", "e", "c", "t", " ", "*", " ", "f", "r", "o", "m", " ", "n", "o", "p", "e">>, <<>>}

SqlTexts == {lead \o w \o gap \o q : lead \in Pads, w \in SqlWords, gap \in Pads, q \in SqlQueries}

OddTexts ==
    {<<"h", "e", "l", "l", "o">>, <<>>, <<"f", "i", "l", "t", "e", "r", " ", "q", "t", "y", " ", ">", "=", " ", "a", "n", "d", " ", "s", "h", "o", "w", " ", "t", "o", "p", " ", "1">>,
     <<"f", "i", "l", "t", "e", "r", " ", "q", "t", "y", " ", ">", " ", "5", "a", "n", "d", " ", "s", "h", "o", "w", " ", "t", "o", "p", " ", "3">>,
     <<"x", "f", "i", "l", "t", "e", "r", " ", "q", "t", "y", " ", ">", " ", "1", " ", "a", "n", "d", " ", "s", "h", "o", "w", " ", "t", "o", "p", " ", "1">>,
     <<"f", "i", "l", "t", "e", "r", " ", "q", "t", "y", " ", ">", " ", "1", " ", "a", "n", "d", " ", "s", "h", "o", "w", " ", "t", "o", "p">>,
     <<"c", "o", "u", "n", "t", " ", "r", "o", "w", "s", " ", "p", "l", "e", "a", "s", "e">>,
     <<"f", "i", "l", "t", "e", "r", " ", "q", "t", "y", ">", "3", " ", "a", "n", "d", " ", "s", "h", "o", "w", " ", "t", "o", "p", "2">>}

QueryTexts == FilterTexts \cup AggregateTexts \cup SqlTexts \cup OddTexts

\* The uploads that parse.
GoodUploads == {u \in Uploads : IsFrame(ReadCsv(u.file.bytes, u.sep))}

\* A session of at most one upload and then one question.
NextQuery ==
    \/ op = "new" /\ \E u \in GoodUploads : LoadCsv(u.file, u.sep)
    \/ op \in {"new", "load_csv"} /\ \E t \in QueryTexts : Ask(t)

SpecQuery == Init /\ [][NextQuery]_vars

(***************************************************************************)
(* Properties of the session (Spec)                                        *)
(***************************************************************************)

\* C2: load is atomic.  A load_csv whose bytes do not parse raises and leaves
\* the DataFrame and the name as they were (an empty store stays empty); a
\* load_csv whose bytes parse stores the parsed DataFrame and the new name
\* together; the store never holds the name of one upload with the DataFrame
\* of another.
C2_LoadAtomic ==
    /\ [][op' = "load_csv" =>
            LET parsed == ReadCsv(arg'.file.bytes, arg'.sep)
            IN  IF IsFrame(parsed)
                THEN outcome' = "return" /\ df' = parsed /\ name' = StrV(arg'.file.name)
                ELSE outcome' = "raise" /\ df' = df /\ name' = name]_vars
    /\ [](\/ df = NoDF /\ name = StrV(<<>>)
          \/ \E u \in Uploads : df = ReadCsv(u.file.bytes, u.sep) /\ name = StrV(u.file.name))

\* C2: an upload that does not parse was refused while shop.csv was stored.
C2_Witness ==
    /\ op = "load_csv"
    /\ outcome = "raise"
    /\ df = ReadCsv(FileShop.bytes, ",")
    /\ name = StrV(FileShop.name)

\* C3: every operation is all-or-nothing.  An ask or a load_csv that raises
\* leaves the store and the memory as they were before the call.
C3_AllOrNothing ==
    [][(op' \in {"ask", "load_csv"} /\ outcome' = "raise")
           => (df' = df /\ name' = name /\ memory' = memory)]_vars

\* C6 as stated: without a DataFrame each of head, the four profiles, ask on
\* either route and chart_data raises ValueError("No CSV loaded."), and with
\* a DataFrame loaded the same call succeeds.
C6_SameRequestSucceeds ==
    op \in {"head", "profile_schema", "profile_stats", "profile_missing", "profile_corr",
            "ask", "chart_data"} =>
        /\ df = NoDF => (outcome = "raise" /\ result = NotLoaded)
        /\ df # NoDF => outcome = "return"

\* C6: without a DataFrame each of head, the four profiles, ask on either
\* route and chart_data raises ValueError("No CSV loaded."); once a load has
\* succeeded none of them raises that error again, head and the four
\* profiles return, and ask and chart_data may still raise for a reason of
\* their own (a column that is missing or not numeric, a query SQLite rejects).
C6_NotLoaded ==
    op \in {"head", "profile_schema", "profile_stats", "profile_missing", "profile_corr",
            "ask", "chart_data"} =>
        /\ df = NoDF => (outcome = "raise" /\ result = NotLoaded)
        /\ df # NoDF =>
              /\ ~(outcome = "raise" /\ result = NotLoaded)
              /\ op \in {"head", "profile_schema", "profile_stats", "profile_missing", "profile_corr"}
                    => outcome = "return"

\* C6: "count rows" was asked and refused (its user turn has no agent turn),
\* a file was loaded, and the same question then returned.
C6_Witness ==
    /\ Len(recorded) = 4
    /\ recorded[1] = Entry(RoleUser, T_CountRows)
    /\ StartsWith(recorded[2], Upper(RoleSystem))
    /\ recorded[3] = Entry(RoleUser, T_CountRows)
    /\ op = "ask"
    /\ arg.text = T_CountRows
    /\ outcome = "return"

\* C7: only load changes the store.  A step that changes the DataFrame or the
\* name is a load_csv that returned; head, the profiles, ask, chart_data and
\* available_columns leave both alone, and a store that holds a DataFrame
\* holds one after every step.
C7_OnlyLoadChangesStore ==
    [][/\ (df' # df \/ name' # name) => (op' = "load_csv" /\ outcome' = "return")
       /\ df # NoDF => df' # NoDF]_vars

\* C7: head ran on the stored shop.csv and returned, the store still whole.
C7_Witness ==
    /\ op = "head"
    /\ outcome = "return"
    /\ df = ReadCsv(FileShop.bytes, ",")
    /\ name = StrV(FileShop.name)
    /\ memory # <<>>

(***************************************************************************)
(* Properties of the memory (SpecLog)                                      *)
(***************************************************************************)

\* C1: the memory is bounded.  After n entries handed to _remember by
\* load_csv and ask, in any order, the memory holds exactly min(n, 50)
\* entries, they are the last min(n, 50) entries handed over, in the order
\* they were handed over, and the memory never holds more than 50.
C1_LogBound ==
    LET n == Len(recorded)
        k == IF n < 50 THEN n ELSE 50
    IN  /\ Len(memory) = k
        /\ Len(memory) <= 50
        /\ \A i \in 1..k : memory[i] = recorded[n - k + i]

\* C1: more than 50 entries were handed over by asks and by an upload, and
\* the oldest of them are gone from a full memory.
C1_Witness ==
    /\ Len(recorded) > 51
    /\ Len(memory) = 50
    /\ memory[1] = recorded[Len(recorded) - 49]
    /\ memory[1] # recorded[1]
    /\ \E i \in 1..Len(recorded) : StartsWith(recorded[i], Upper(RoleSystem))

(***************************************************************************)
(* Properties of _coerce_value (SpecCoerce)                                *)
(***************************************************************************)

\* C8 as stated: coercion never fails and gives an int when int() takes the
\* token, else a float when float() takes it, else a bool when the token is
\* true or false in any case, else the token without its surrounding quotes;
\* and every alphabetic word other than true and false stays a string.
C8_AlphabeticStaysString ==
    op = "_coerce_value" =>
        LET v == arg.text
            alphabetic == v # <<>> /\ \A i \in 1..Len(v) : IsAlpha(v[i])
        IN  /\ outcome = "return"
            /\ IntParses(v) => result = IntV(IntValue(v))
            /\ (~IntParses(v) /\ FloatParses(v)) => result = FloatValue(v)
            /\ (~IntParses(v) /\ ~FloatParses(v) /\ Lower(v) \in BoolWords)
                  => result = BoolV(Lower(v) = <<"t", "r", "u", "e">>)
            /\ (~IntParses(v) /\ ~FloatParses(v) /\ Lower(v) \notin BoolWords)
                  => result = StrV(StripWhere(v, IsQuote))
            /\ (alphabetic /\ Lower(v) \notin BoolWords) => result = StrV(v)

\* C8: coercion never fails and gives an int when int() takes the token,
\* else a float when float() takes it, else a bool when the token is true or
\* false in any case, else the token without its surrounding quotes; every
\* alphabetic word stays a string except true and false and the words
\* float() takes: nan, inf and infinity in any case, which become floats.
C8_CoerceOrdered ==
    op = "_coerce_value" =>
        LET v == arg.text
            alphabetic == v # <<>> /\ \A i \in 1..Len(v) : IsAlpha(v[i])
        IN  /\ outcome = "return"
            /\ result.t \in {"int", "float", "bool", "str"}
            /\ IntParses(v) => result = IntV(IntValue(v))
            /\ (~IntParses(v) /\ FloatParses(v)) => result = FloatValue(v)
            /\ (~IntParses(v) /\ ~FloatParses(v) /\ Lower(v) \in BoolWords)
                  => result = BoolV(Lower(v) = <<"t", "r", "u", "e">>)
            /\ (~IntParses(v) /\ ~FloatParses(v) /\ Lower(v) \notin BoolWords)
                  => result = StrV(StripWhere(v, IsQuote))
            /\ (alphabetic /\ Lower(v) \notin BoolWords \cup FloatWords)
                  => result = StrV(v)
            /\ (alphabetic /\ Lower(v) \in FloatWords) => result.t = "float"

\* C8: the alphabetic word NaN was coerced, to the float nan.
C8_Witness ==
    /\ op = "_coerce_value"
    /\ arg.text = <<"N", "a", "N">>
    /\ outcome = "return"
    /\ result = NaN

(***************************************************************************)
(* Properties of ask (SpecQuery)                                           *)
(***************************************************************************)

\* C4: ask routes every text to exactly one tool.  A text whose first four
\* characters after the leading white space are s, q, l in either case and a
\* colon goes to sql(), with the characters after the colon up to the last
\* character that is not white space, trimmed, in the case they were written;
\* every other text goes to simple() as it was written.
C4_AskRouting ==
    op = "ask" =>
        LET t == arg.text
            inked == {i \in 1..Len(t) : ~IsSpace(t[i])}
            a == IF inked = {} THEN 1 ELSE SetMin(inked)
            b == IF inked = {} THEN 0 ELSE SetMax(inked)
            prefixed == /\ a + 3 <= b
                        /\ t[a] \in {"s", "S"}
                        /\ t[a + 1] \in {"q", "Q"}
                        /\ t[a + 2] \in {"l", "L"}
                        /\ t[a + 3] = ":"
        IN  /\ trace.route \in {"sql", "simple"}
            /\ trace.route = "sql" <=> trace.shape = "sql"
            /\ prefixed => (trace.route = "sql" /\ trace.handed = Strip(SubSeq(t, a + 4, b)))
            /\ ~prefixed => (trace.route = "simple" /\ trace.handed = t)

\* C4: " SQL: SELECT * FROM df" went to sql() as "SELECT * FROM df" and returned.
C4_Witness ==
    /\ op = "ask"
    /\ arg.text = <<" ", "S", "Q", "L", ":", " ", "S", "E", "L", "E", "C", "T", " ", "*", " ", "F", "R", "O", "M", " ", "d", "f">>
    /\ trace.route = "sql"
    /\ trace.handed = <<"S", "E", "L", "E", "C", "T", " ", "*", " ", "F", "R", "O", "M", " ", "d", "f">>
    /\ outcome = "return"

\* C5 as stated: for "filter <column> <op> <value> and show top <N>" whose
\* column, as written, is a column of the DataFrame, the result is the first
\* min(N, k) rows, in row order, of the k rows whose column satisfies <op>
\* against the coerced value as it was written.  (Stated for the texts whose
\* column is written in lower case, the case simple() looks it up in, and
\* whose comparison is one pandas makes.)
C5_FilterAsWritten ==
    (op = "ask" /\ df # NoDF /\ trace.route = "simple") =>
        LET w == Strip(arg.text)
            m == FilterMatch(Lower(w))
        IN  m # NoMatch =>
                LET col == Strip(SubSeq(w, m.span.col[1], m.span.col[2]))
                    val == Coerce(SubSeq(w, m.span.val[1], m.span.val[2]))
                    rows == CompareColumn(df, col, m.op, val)
                IN  (HasColumn(df, col) /\ col = Lower(col) /\ rows.outcome = "return") =>
                        /\ outcome = "return"
                        /\ result = DfHead(SelectMask(df, rows.value), IntValue(m.topn))

\* C9: with a DataFrame loaded, a text that ask hands to simple() and that
\* matches neither FILTER_PATTERN nor a pattern of SIMPLE_PATTERNS (trimmed,
\* in any case) returns the fixed hint and raises nothing; a text that
\* matches is answered as one shape: the filter when FILTER_PATTERN matches,
\* else the first pattern of SIMPLE_PATTERNS that matches, never the hint.
C9_Unrecognized ==
    (op = "ask" /\ df # NoDF /\ trace.route = "simple") =>
        LET p == Lower(Strip(arg.text))
            isFilter == FilterMatch(p) # NoMatch
            hits == SimpleHits(p)
        IN  /\ (~isFilter /\ hits = {})
                  => (outcome = "return" /\ result = Unrecognized /\ trace.shape = "none")
            /\ isFilter => trace.shape = "filter"
            /\ (~isFilter /\ hits # {}) => trace.shape = SIMPLE_PATTERNS[SetMin(hits)].kind
            /\ (isFilter \/ hits # {}) => result # Unrecognized
            /\ Cardinality(hits) <= 1
            /\ isFilter => hits = {}

\* C9: "count rows please" was asked of a loaded DataFrame and the hint came back.
C9_Witness ==
    /\ op = "ask"
    /\ df # NoDF
    /\ arg.text = <<"c", "o", "u", "n", "t", " ", "r", "o", "w", "s", " ", "p", "l", "e", "a", "s", "e">>
    /\ outcome = "return"
    /\ result = Unrecognized

\* C10 as stated: for a text of the filter shape or of an aggregate or
\* unique-values shape, the result is the message "Column '<name>' not
\* found." exactly when the column name as written, trimmed, is not a column
\* of the DataFrame.
C10_ColumnResolution ==
    (op = "ask" /\ df # NoDF /\ trace.route = "simple"
        /\ trace.shape \in {"filter", "avg", "sum", "max", "min", "unique"}) =>
        LET w == Strip(arg.text)
            p == Lower(w)
            m == FilterMatch(p)
            col == IF trace.shape = "filter"
                   THEN Strip(SubSeq(w, m.span.col[1], m.span.col[2]))
                   ELSE Strip(From(w, Len(SIMPLE_PATTERNS[SetMin(SimpleHits(p))].prefix)))
            notFound == /\ outcome = "return"
                        /\ result \in {ColumnNotFound(col), ColumnNotFound(Lower(col))}
        IN  notFound <=> ~HasColumn(df, col)

====
